---- MODULE Spec2Model ----
(***************************************************************************)
(* A model of the shape detector of src/src/main.ts (class ShapeDetector): *)
(* toGrayscale, otsuBinarize, findContours / floodFill, traceContour, rdp, *)
(* pointLineDistance, isSquare and the classifier of detectShapes.         *)
(*                                                                         *)
(* Numbers.  The program computes in IEEE doubles; the model computes the  *)
(* same comparisons exactly over the integers (a quotient a/b > c/d is     *)
(* compared by cross-multiplication, a square root by squaring both        *)
(* sides).  A division by zero is modelled by what the double arithmetic   *)
(* gives: x/0 is Infinity for x > 0 and NaN for x = 0, and every           *)
(* comparison with NaN is false.                                           *)
(***************************************************************************)
EXTENDS Integers, Sequences, FiniteSets, TLC

VARIABLES
  pc,                 \* the position of the operation that is running
  imageData,          \* detectShapes: its argument, [width, height, data]
  grayData,           \* detectShapes: the intensity buffer (a sequence, index j+1)
  optimalThreshold,   \* otsuBinarize: the threshold it chose
  divByZero,          \* otsuBinarize: TRUE once a quotient was taken with divisor 0
  binaryData,         \* the mask, binaryData[y][x] in {0, 1}
  width, height,      \* the mask's dimensions
  visited,            \* findContours: the pixels marked visited
  x, y,               \* findContours: the scan position
  queue,              \* floodFill: the BFS queue
  blob,               \* floodFill: the blob being collected; traceContour: its argument
  contours,           \* findContours: the blobs found so far
  perimeter,          \* traceContour: the points emitted so far
  currentPoint,       \* traceContour
  dir,                \* traceContour
  points,             \* rdp: its argument
  epsilon,            \* rdp: its tolerance, in units of 1/EpsilonUnit
  simplified,         \* rdp: its result, and the result of rdp on that
  area,               \* detectShapes: blob.length
  perimeterLength,    \* detectShapes: orderedPerimeter.length
  vertices,           \* detectShapes: the simplified polygon
  outcome,            \* detectShapes: what the classifier did with the blob
  shapes,             \* detectShapes: the shapes pushed so far
  blobIndex           \* detectShapes: the position of the for-of loop over contours

vars == <<pc, imageData, grayData, optimalThreshold, divByZero, binaryData,
          width, height, visited, x, y, queue, blob, contours, perimeter,
          currentPoint, dir, points, epsilon, simplified, area,
          perimeterLength, vertices, outcome, shapes, blobIndex>>

detectVars == <<imageData, grayData, optimalThreshold, divByZero, shapes, blobIndex>>
maskVars == <<binaryData, width, height>>
fillVars == <<visited, x, y, queue, contours>>
traceVars == <<perimeter, currentPoint, dir>>
rdpVars == <<points, epsilon, simplified>>
classifyVars == <<area, perimeterLength, vertices, outcome>>

(***************************************************************************)
(* Points and sequences.                                                   *)
(***************************************************************************)
Point(px, py) == [x |-> px, y |-> py]

Range(s) == {s[i] : i \in 1..Len(s)}

Abs(n) == IF n < 0 THEN -n ELSE n

Min2(a, b) == IF a < b THEN a ELSE b

\* the value every variable has in a specification that does not use it
Unused == "unused"

(***************************************************************************)
(* Exact arithmetic on naturals too large for one machine integer: a       *)
(* number is its BigLimbs digits in base BigBase, least significant first. *)
(***************************************************************************)
BigBase == 10000
BigLimbs == 6

\* n >= 0, below BigBase^3
BigOf(n) ==
  [k \in 1..BigLimbs |->
     IF k = 1 THEN n % BigBase
     ELSE IF k = 2 THEN (n \div BigBase) % BigBase
     ELSE IF k = 3 THEN (n \div BigBase) \div BigBase
     ELSE 0]

RECURSIVE BigSum(_, _, _, _)
BigSum(a, b, k, i) ==
  IF i > k THEN 0 ELSE a[i] * b[k + 1 - i] + BigSum(a, b, k, i + 1)

\* the digits of a * b from digit k on, with the carry into digit k
RECURSIVE BigCarry(_, _, _, _)
BigCarry(a, b, k, carry) ==
  IF k > BigLimbs THEN <<>>
  ELSE LET v == BigSum(a, b, k, 1) + carry
       IN <<v % BigBase>> \o BigCarry(a, b, k + 1, v \div BigBase)

BigMul(a, b) == BigCarry(a, b, 1, 0)

BigLess(a, b) ==
  \E k \in 1..BigLimbs :
    /\ a[k] < b[k]
    /\ \A j \in (k + 1)..BigLimbs : a[j] = b[j]

(***************************************************************************)
(* toGrayscale.                                                            *)
(***************************************************************************)
\* 0.299 r + 0.587 g + 0.114 b, stored in a Uint8ClampedArray: rounded to the
\* nearest integer (the images of this model have no value half-way)
GrayOf(r, g, b) == (299 * r + 587 * g + 114 * b + 500) \div 1000

\* data[i] of the loop, i counted from 0; beyond the buffer it is undefined,
\* the sum is NaN and the array stores 0.  An element j >= width * height
\* of grayData does not exist and the store is ignored.
ToGrayscale(img) ==
  [j \in 1..(img.width * img.height) |->
     LET i == 4 * (j - 1)
     IN IF i + 2 < Len(img.data)
        THEN GrayOf(img.data[i + 1], img.data[i + 2], img.data[i + 3])
        ELSE 0]

(***************************************************************************)
(* otsuBinarize.                                                           *)
(***************************************************************************)
GrayLevelCount == 256

Histogram(g) ==
  [t \in 0..(GrayLevelCount - 1) |-> Cardinality({j \in 1..Len(g) : g[j] = t})]

\* the sum of t * hist[t] for t in lo..hi
RECURSIVE WeightedSum(_, _, _)
WeightedSum(hist, lo, hi) ==
  IF lo > hi THEN 0
  ELSE IF lo = hi THEN lo * hist[lo]
  ELSE LET mid == (lo + hi) \div 2
       IN WeightedSum(hist, lo, mid) + WeightedSum(hist, mid + 1, hi)

TotalIntensity(hist) == WeightedSum(hist, 0, GrayLevelCount - 1)

\* (a sweep that takes the quotients before it looks at wB)
OtsuSkipsNever(wB) == FALSE

\* if (wB === 0) continue
OtsuSkips(wB) == wB = 0

\* if (wF === 0) break
OtsuStops(wF) == wF = 0

\* variance > maxVariance, the variances being the quotients num / den; a
\* comparison with NaN is false
OtsuBetter(v, maxVariance) ==
  /\ ~v.nan
  /\ BigLess(BigMul(maxVariance.num, BigOf(v.den)),
             BigMul(v.num, BigOf(maxVariance.den)))

\* wB * wF * (mB - mF)^2 with mB = sum / wB and mF = (total - sum) / wF, which
\* is (sum * wF - (total - sum) * wB)^2 / (wB * wF); NaN when wB or wF is 0
\* (then the sum it divides is 0 as well)
OtsuVariance(sum, wB, wF, totalIntensity) ==
  LET a == Abs(sum * wF - (totalIntensity - sum) * wB)
  IN IF wB = 0 \/ wF = 0
     THEN [nan |-> TRUE, num |-> BigOf(0), den |-> 1]
     ELSE [nan |-> FALSE, num |-> BigMul(BigOf(a), BigOf(a)), den |-> wB * wF]

\* one iteration of the sweep over t:
\* st = [t, sum, wB, maxVariance, optimalThreshold, stopped, divByZero]
OtsuIteration(hist, pixelCount, totalIntensity, st) ==
  LET wB == st.wB + hist[st.t]
      wF == pixelCount - wB
      sum == st.sum + st.t * hist[st.t]
      variance == OtsuVariance(sum, wB, wF, totalIntensity)
  IN IF OtsuSkips(wB)
     THEN [st EXCEPT !.t = st.t + 1, !.wB = wB]
     ELSE IF OtsuStops(wF)
     THEN [st EXCEPT !.wB = wB, !.stopped = TRUE]
     ELSE LET better == OtsuBetter(variance, st.maxVariance)
          IN [t |-> st.t + 1, sum |-> sum, wB |-> wB,
              maxVariance |-> IF better THEN variance ELSE st.maxVariance,
              optimalThreshold |-> IF better THEN st.t ELSE st.optimalThreshold,
              stopped |-> FALSE,
              divByZero |-> st.divByZero \/ wB = 0 \/ wF = 0]

\* the sweep, at most n iterations
RECURSIVE OtsuLoop(_, _, _, _, _)
OtsuLoop(hist, pixelCount, totalIntensity, n, st) ==
  IF n = 0 \/ st.stopped \/ st.t >= GrayLevelCount THEN st
  ELSE IF n = 1 THEN OtsuIteration(hist, pixelCount, totalIntensity, st)
  ELSE OtsuLoop(hist, pixelCount, totalIntensity, n - (n \div 2),
                OtsuLoop(hist, pixelCount, totalIntensity, n \div 2, st))

OtsuSweep(g, w, h) ==
  LET hist == Histogram(g)
  IN OtsuLoop(hist, w * h, TotalIntensity(hist), GrayLevelCount,
       [t |-> 0, sum |-> 0, wB |-> 0,
        maxVariance |-> [nan |-> FALSE, num |-> BigOf(0), den |-> 1],
        optimalThreshold |-> 0, stopped |-> FALSE, divByZero |-> FALSE])

\* grayData[y * width + x] < optimalThreshold
OtsuMarks(gray, threshold) == gray < threshold

\* the mask; a pixel beyond grayData is undefined, and undefined < t is false
OtsuMask(g, w, h, threshold) ==
  [py \in 0..(h - 1) |->
     [px \in 0..(w - 1) |->
        IF py * w + px + 1 <= Len(g) /\ OtsuMarks(g[py * w + px + 1], threshold)
        THEN 1 ELSE 0]]

(***************************************************************************)
(* findContours and floodFill (connected-component labelling).             *)
(***************************************************************************)
\* (a flood fill over the 4 edge neighbours only)
FillOffsetsEdgeOnly == << <<0, -1>>, <<-1, 0>>, <<1, 0>>, <<0, 1>> >>

\* the (dx, dy) pairs in the order of floodFill's two nested loops
FillOffsets ==
  << <<-1, -1>>, <<0, -1>>, <<1, -1>>,
     <<-1, 0>>,             <<1, 0>>,
     <<-1, 1>>,  <<0, 1>>,  <<1, 1>> >>

IsForeground(bd, px, py) == bd[py][px] = 1

\* the condition under which floodFill enqueues the neighbour (nx, ny)
FillAccepts(bd, w, h, vis, nx, ny) ==
  /\ nx >= 0 /\ nx < w /\ ny >= 0 /\ ny < h
  /\ IsForeground(bd, nx, ny)
  /\ Point(nx, ny) \notin vis

\* the inner loops of floodFill from offset k on: st = [queue, visited]
RECURSIVE FillNeighbours(_, _, _, _, _, _)
FillNeighbours(bd, w, h, p, k, st) ==
  IF k > Len(FillOffsets) THEN st
  ELSE LET nx == p.x + FillOffsets[k][1]
           ny == p.y + FillOffsets[k][2]
       IN IF FillAccepts(bd, w, h, st.visited, nx, ny)
          THEN FillNeighbours(bd, w, h, p, k + 1,
                 [queue |-> Append(st.queue, Point(nx, ny)),
                  visited |-> st.visited \cup {Point(nx, ny)}])
          ELSE FillNeighbours(bd, w, h, p, k + 1, st)

\* one iteration of floodFill's while loop: st = [queue, blob, visited]
FillIteration(bd, w, h, st) ==
  LET p == Head(st.queue)
      nb == FillNeighbours(bd, w, h, p, 1,
              [queue |-> Tail(st.queue), visited |-> st.visited])
  IN [queue |-> nb.queue, blob |-> Append(st.blob, p), visited |-> nb.visited]

\* floodFill's state on entry
FillStart(vis, startX, startY) ==
  [queue |-> <<Point(startX, startY)>>, blob |-> <<>>,
   visited |-> vis \cup {Point(startX, startY)}]

\* Loops are run by halving the number of iterations left, which keeps the
\* evaluation shallow: XLoop(.., n, st) is st after at most n iterations of
\* the loop X, an iteration past the loop's end leaving st as it is.

\* the while loop of floodFill, at most n iterations
RECURSIVE FillLoop(_, _, _, _, _)
FillLoop(bd, w, h, n, st) ==
  IF n = 0 \/ st.queue = <<>> THEN st
  ELSE IF n = 1 THEN FillIteration(bd, w, h, st)
  ELSE FillLoop(bd, w, h, n - (n \div 2), FillLoop(bd, w, h, n \div 2, st))

\* floodFill: [blob, visited]; a pixel is enqueued at most once, so the loop
\* ends within w * h iterations
FloodFill(bd, startX, startY, w, h, vis) ==
  FillLoop(bd, w, h, w * h, FillStart(vis, startX, startY))

\* one iteration of findContours' inner loop, at the scan position
\* i = y * w + x: st = [i, visited, contours]
ScanIteration(bd, w, h, st) ==
  LET px == st.i % w
      py == st.i \div w
  IN IF IsForeground(bd, px, py) /\ Point(px, py) \notin st.visited
     THEN LET f == FloodFill(bd, px, py, w, h, st.visited)
          IN [i |-> st.i + 1, visited |-> f.visited,
              contours |-> Append(st.contours, f.blob)]
     ELSE [i |-> st.i + 1, visited |-> st.visited, contours |-> st.contours]

\* findContours' double loop, at most n iterations
RECURSIVE ScanLoop(_, _, _, _, _)
ScanLoop(bd, w, h, n, st) ==
  IF n = 0 \/ st.i >= w * h THEN st
  ELSE IF n = 1 THEN ScanIteration(bd, w, h, st)
  ELSE ScanLoop(bd, w, h, n - (n \div 2), ScanLoop(bd, w, h, n \div 2, st))

FindContours(bd, w, h) ==
  ScanLoop(bd, w, h, w * h, [i |-> 0, visited |-> {}, contours |-> <<>>]).contours

(***************************************************************************)
(* traceContour (Moore-neighbour tracing).                                 *)
(***************************************************************************)
\* (a reduction that keeps the member with the largest y)
StartPointPickLowest(p1, p2) ==
  IF p1.y > p2.y THEN p1
  ELSE IF p1.y < p2.y THEN p2
  ELSE IF p1.x < p2.x THEN p1 ELSE p2

\* blob.reduce(...): the member with the smallest y and, among those, the
\* smallest x; on a tie of both, p2
StartPointPick(p1, p2) ==
  IF p1.y < p2.y THEN p1
  ELSE IF p1.y > p2.y THEN p2
  ELSE IF p1.x < p2.x THEN p1 ELSE p2

\* the reduction over b[k], b[k + 1], ..., at most n elements, from p1
RECURSIVE StartPointLoop(_, _, _)
StartPointLoop(b, n, st) ==
  IF n = 0 \/ st.k > Len(b) THEN st
  ELSE IF n = 1 THEN [k |-> st.k + 1, p1 |-> StartPointPick(st.p1, b[st.k])]
  ELSE StartPointLoop(b, n - (n \div 2), StartPointLoop(b, n \div 2, st))

StartPoint(b) == StartPointLoop(b, Len(b), [k |-> 2, p1 |-> b[1]]).p1

\* the table `neighbors`: N, NE, E, SE, S, SW, W, NW, at indices 0..7
TraceNeighbors ==
  [d \in 0..7 |->
     << Point(0, -1), Point(1, -1), Point(1, 0), Point(1, 1),
        Point(0, 1), Point(-1, 1), Point(-1, 0), Point(-1, -1) >>[d + 1]]

\* nextDir: where the search for the next boundary pixel starts
TraceSearchStart(d) == (d + 7) % 8

\* the for loop of one iteration: the first i in 0..7 whose neighbour is in
\* the blob, or 8 when there is none
RECURSIVE TraceSearch(_, _, _, _)
TraceSearch(blobSet, p, nextDir, i) ==
  IF i >= 8 THEN 8
  ELSE LET checkDir == (nextDir + i) % 8
           neighbor == Point(p.x + TraceNeighbors[checkDir].x,
                             p.y + TraceNeighbors[checkDir].y)
       IN IF neighbor \in blobSet THEN i
          ELSE TraceSearch(blobSet, p, nextDir, i + 1)

\* one iteration of the do-while loop and its loop test:
\* st = [perimeter, currentPoint, dir]; running says whether the loop goes on
TraceIteration(blobSet, startPoint, st) ==
  LET nextDir == TraceSearchStart(st.dir)
      i == TraceSearch(blobSet, st.currentPoint, nextDir, 0)
      checkDir == (nextDir + i) % 8
      nextPoint == Point(st.currentPoint.x + TraceNeighbors[checkDir].x,
                         st.currentPoint.y + TraceNeighbors[checkDir].y)
      pushed == Append(st.perimeter, st.currentPoint)
  IN IF i = 8
     THEN [perimeter |-> pushed, currentPoint |-> st.currentPoint,
           dir |-> st.dir, running |-> FALSE]
     ELSE [perimeter |-> pushed, currentPoint |-> nextPoint, dir |-> checkDir,
           running |-> nextPoint # startPoint]

\* The loop's state is (currentPoint, dir), and after the first iteration dir
\* is the direction of the step from the point emitted before to
\* currentPoint.  So once the step that led to currentPoint has been emitted
\* before, the loop is in a configuration it was in before, and it never ends.
StepTwice(per, cur) ==
  /\ per # <<>>
  /\ \E i \in 1..(Len(per) - 1) : per[i] = per[Len(per)] /\ per[i + 1] = cur

\* the do-while loop, at most n iterations, followed until it ends or the
\* same step is emitted for the second time
RECURSIVE TraceLoop(_, _, _, _)
TraceLoop(blobSet, startPoint, n, st) ==
  IF n = 0 \/ ~st.running \/ StepTwice(st.perimeter, st.currentPoint) THEN st
  ELSE IF n = 1 THEN TraceIteration(blobSet, startPoint, st)
  ELSE TraceLoop(blobSet, startPoint, n - (n \div 2),
                 TraceLoop(blobSet, startPoint, n \div 2, st))

\* traceContour: [perimeter, diverges]; diverges when the loop never ends.
\* There are at most 8 * blob.length steps p -> q, so a loop that has not
\* ended after that many iterations has emitted one of them twice.
TraceContour(b) ==
  LET st == TraceLoop(Range(b), StartPoint(b), 8 * Len(b) + 1,
              [perimeter |-> <<>>, currentPoint |-> StartPoint(b), dir |-> 0,
               running |-> TRUE])
  IN [perimeter |-> st.perimeter, diverges |-> st.running]

(***************************************************************************)
(* rdp (Ramer-Douglas-Peucker) and pointLineDistance.                      *)
(***************************************************************************)
\* epsilon is counted in units of 1 / EpsilonUnit
EpsilonUnit == 1000

\* num / den of pointLineDistance, kept as num and den^2 = dy^2 + dx^2.  When
\* p1 = p2 both num and den are 0 and the quotient is NaN.
PointLineDistance(p, p1, p2) ==
  LET dx == p2.x - p1.x
      dy == p2.y - p1.y
  IN [num |-> Abs(dy * p.x - dx * p.y + p2.x * p1.y - p2.y * p1.x),
      den2 |-> dy * dy + dx * dx]

DistanceIsNaN(d) == d.den2 = 0 /\ d.num = 0

\* the value of `let dmax = 0`
ZeroDistance == [num |-> 0, den2 |-> 1]

\* d > dmax; a comparison with NaN is false, and x / 0 is Infinity for x > 0
DistanceGreater(d, dmax) ==
  /\ ~DistanceIsNaN(d)
  /\ ~DistanceIsNaN(dmax)
  /\ d.num * d.num * dmax.den2 > dmax.num * dmax.num * d.den2

\* dmax > epsilon, for epsilon = eps / EpsilonUnit >= 0
DistanceExceeds(dmax, eps) ==
  /\ ~DistanceIsNaN(dmax)
  /\ BigLess(BigMul(BigOf(eps * eps), BigOf(dmax.den2)),
             BigMul(BigOf(dmax.num * dmax.num), BigOf(EpsilonUnit * EpsilonUnit)))

\* the for loop of rdp over i (counted from 0), at most n iterations:
\* st = [i, index, dmax]
RECURSIVE RdpScan(_, _, _)
RdpScan(pts, n, st) ==
  IF n = 0 \/ st.i >= Len(pts) - 1 THEN st
  ELSE IF n = 1
  THEN LET d == PointLineDistance(pts[st.i + 1], pts[1], pts[Len(pts)])
       IN IF DistanceGreater(d, st.dmax)
          THEN [i |-> st.i + 1, index |-> st.i, dmax |-> d]
          ELSE [st EXCEPT !.i = st.i + 1]
  ELSE RdpScan(pts, n - (n \div 2), RdpScan(pts, n \div 2, st))

\* the values d of the for loop of rdp, one for every point between the ends:
\* d = this.pointLineDistance(points[i], points[0], points[end])
ScanDistances(pts) ==
  [k \in 1..(Len(pts) - 2) |->
     PointLineDistance(pts[k + 1], pts[1], pts[Len(pts)])]

\* points.slice(from, to), the indices counted from 0, `to` excluded
Slice(pts, from, to) == SubSeq(pts, from + 1, to)

\* (a concatenation that keeps the split point of both halves)
RdpJoinKeepsBoth(recResults1, recResults2) == recResults1 \o recResults2

\* recResults1.slice(0, -1).concat(recResults2)
RdpJoin(recResults1, recResults2) ==
  Slice(recResults1, 0, Len(recResults1) - 1) \o recResults2

RECURSIVE Rdp(_, _)
Rdp(pts, eps) ==
  IF Len(pts) < 3 THEN pts
  ELSE LET found == RdpScan(pts, Len(pts), [i |-> 1, index |-> 0, dmax |-> ZeroDistance])
           end == Len(pts) - 1
       IN IF DistanceExceeds(found.dmax, eps)
          THEN RdpJoin(Rdp(Slice(pts, 0, found.index + 1), eps),
                       Rdp(Slice(pts, found.index, Len(pts)), eps))
          ELSE <<pts[1], pts[end + 1]>>

(***************************************************************************)
(* isSquare and the classifier of detectShapes.                            *)
(***************************************************************************)
\* dist(p1, p2), squared
Dist2(p1, p2) == (p1.x - p2.x) * (p1.x - p2.x) + (p1.y - p2.y) * (p1.y - p2.y)

SetMin(S) == CHOOSE m \in S : \A n \in S : m <= n

SetMax(S) == CHOOSE m \in S : \A n \in S : m >= n

\* maxSide / minSide < 1.2, on the squared sides: the quotient is Infinity or
\* NaN when minSide is 0, and the comparison is then false
SidesRoughlyEqual(minSide2, maxSide2) ==
  minSide2 > 0 /\ 100 * maxSide2 < 144 * minSide2

IsSquare(vs) ==
  IF Len(vs) # 4 THEN FALSE
  ELSE LET sides2 == {Dist2(vs[1], vs[2]), Dist2(vs[2], vs[3]),
                      Dist2(vs[3], vs[4]), Dist2(vs[4], vs[1])}
       IN SidesRoughlyEqual(SetMin(sides2), SetMax(sides2))

\* Math.PI, as the quotient PiNum / PiDen
PiNum == 355
PiDen == 113

\* compactness = 4 * pi * area / perimeterLength^2 compared with num / den; a
\* perimeterLength of 0 makes it Infinity
CompactnessAbove(a, len, num, den) ==
  4 * PiNum * a * den > num * len * len * PiDen

CompactnessBelow(a, len, num, den) ==
  4 * PiNum * a * den < num * len * len * PiDen

\* a confidence is counted in units of 1 / ConfidenceUnit
ConfidenceUnit == 1000

\* Math.min(compactness, 1.0), rounded down to the unit
CircleConfidence(a, len) ==
  IF CompactnessAbove(a, len, 1, 1) \/ len = 0 THEN ConfidenceUnit
  ELSE (4 * PiNum * a * ConfidenceUnit) \div (len * len * PiDen)

Label(t, c) == [type |-> t, confidence |-> c]

\* no shape is pushed for the blob
NoLabel == Label("none", 0)

\* the least number of pixels of a blob that detectShapes keeps
MinBlobPixels == 100

\* (a noise filter that lets a blob of MinBlobPixels - 1 pixels pass)
IsNoiseOffByOne(a) == a < MinBlobPixels - 1

\* if (blob.length < 100) continue
IsNoise(a) == a < MinBlobPixels

\* (the vertex counts of star and pentagon exchanged)
PolygonLabelSwapped(a, len, vs) ==
  LET v == Len(vs)
  IN IF v = 10 THEN Label("pentagon", 850)
     ELSE IF v = 5 THEN Label("star", 850)
     ELSE IF v = 3
     THEN IF CompactnessAbove(a, len, 75, 100)
          THEN Label("square", 700) ELSE Label("triangle", 850)
     ELSE IF v = 4
     THEN IF IsSquare(vs) THEN Label("square", 900) ELSE Label("rectangle", 900)
     ELSE IF CompactnessAbove(a, len, 76, 100) THEN Label("square", 650)
     ELSE IF CompactnessAbove(a, len, 50, 100) THEN Label("rectangle", 650)
     ELSE NoLabel

\* the hybrid classification of a blob that is no circle, on its vertices
PolygonLabel(a, len, vs) ==
  LET v == Len(vs)
  IN IF v = 10 THEN Label("star", 850)
     ELSE IF v = 5 THEN Label("pentagon", 850)
     ELSE IF v = 3
     THEN IF CompactnessAbove(a, len, 75, 100)
          THEN Label("square", 700) ELSE Label("triangle", 850)
     ELSE IF v = 4
     THEN IF IsSquare(vs) THEN Label("square", 900) ELSE Label("rectangle", 900)
     ELSE IF CompactnessAbove(a, len, 76, 100) THEN Label("square", 650)
     ELSE IF CompactnessAbove(a, len, 50, 100) THEN Label("rectangle", 650)
     ELSE NoLabel

\* whether the loop body reaches the polygon classification
ReachesPolygons(a, len) ==
  /\ ~IsNoise(a)
  /\ ~CompactnessBelow(a, len, 20, 100)
  /\ ~CompactnessAbove(a, len, 95, 100)

\* the body of the loop over the blobs, for a blob of a pixels whose traced
\* perimeter has len points and whose simplified polygon is vs
Classify(a, len, vs) ==
  IF IsNoise(a) THEN NoLabel
  ELSE IF CompactnessBelow(a, len, 20, 100) THEN NoLabel
  ELSE IF CompactnessAbove(a, len, 95, 100)
  THEN Label("circle", CircleConfidence(a, len))
  ELSE PolygonLabel(a, len, vs)

(***************************************************************************)
(* calculateCentroid and calculateBoundingBox.                             *)
(***************************************************************************)
\* the sum of f[k] for k in lo..hi
RECURSIVE SumOver(_, _, _)
SumOver(f, lo, hi) ==
  IF lo > hi THEN 0
  ELSE IF lo = hi THEN f[lo]
  ELSE LET mid == (lo + hi) \div 2
       IN SumOver(f, lo, mid) + SumOver(f, mid + 1, hi)

\* {x: sumX / blob.length, y: sumY / blob.length}, each kept as the quotient
CalculateCentroid(b) ==
  [sumX |-> SumOver([k \in 1..Len(b) |-> b[k].x], 1, Len(b)),
   sumY |-> SumOver([k \in 1..Len(b) |-> b[k].y], 1, Len(b)),
   length |-> Len(b)]

CalculateBoundingBox(b) ==
  LET xs == {b[k].x : k \in 1..Len(b)}
      ys == {b[k].y : k \in 1..Len(b)}
  IN [x |-> SetMin(xs), y |-> SetMin(ys),
      width |-> SetMax(xs) - SetMin(xs) + 1,
      height |-> SetMax(ys) - SetMin(ys) + 1]

\* epsilon = perimeterLength * 0.042, in units of 1 / EpsilonUnit
EpsilonOf(len) == 42 * len

(***************************************************************************)
(* ContourSpec: findContours, one loop iteration at a time, on every mask  *)
(* of at most MaxMaskWidth x MaxMaskHeight pixels.                         *)
(***************************************************************************)
MaxMaskWidth == 4
MaxMaskHeight == 2

Masks(w, h) == [0..(h - 1) -> [0..(w - 1) -> {0, 1}]]

ContourInit ==
  /\ width \in 0..MaxMaskWidth
  /\ height \in 0..MaxMaskHeight
  /\ binaryData \in Masks(width, height)
  /\ pc = "scan"
  /\ visited = {}
  /\ x = 0
  /\ y = 0
  /\ queue = <<>>
  /\ blob = <<>>
  /\ contours = <<>>
  /\ imageData = Unused /\ grayData = Unused /\ optimalThreshold = Unused
  /\ divByZero = FALSE /\ shapes = Unused /\ blobIndex = Unused
  /\ perimeter = Unused /\ currentPoint = Unused /\ dir = Unused
  /\ points = Unused /\ epsilon = Unused /\ simplified = Unused
  /\ area = Unused /\ perimeterLength = Unused /\ vertices = Unused
  /\ outcome = Unused

\* what no step of findContours changes
contourFrame == <<maskVars, detectVars, traceVars, rdpVars, classifyVars>>

\* the scan position after (x, y): x++ and, at the end of a row, y++
ScanAdvance ==
  IF x + 1 < width
  THEN x' = x + 1 /\ y' = y
  ELSE x' = 0 /\ y' = y + 1

\* a row of width 0: the inner loop does not run
ScanEmptyRow ==
  /\ pc = "scan" /\ y < height /\ width = 0
  /\ y' = y + 1
  /\ UNCHANGED <<pc, x, visited, queue, blob, contours>>
  /\ UNCHANGED contourFrame

\* the pixel is background or already visited
ScanSkip ==
  /\ pc = "scan" /\ y < height /\ x < width
  /\ ~(IsForeground(binaryData, x, y) /\ Point(x, y) \notin visited)
  /\ ScanAdvance
  /\ UNCHANGED <<pc, visited, queue, blob, contours>>
  /\ UNCHANGED contourFrame

\* an unvisited foreground pixel: floodFill is entered
ScanFill ==
  /\ pc = "scan" /\ y < height /\ x < width
  /\ IsForeground(binaryData, x, y) /\ Point(x, y) \notin visited
  /\ LET st == FillStart(visited, x, y)
     IN /\ queue' = st.queue
        /\ blob' = st.blob
        /\ visited' = st.visited
  /\ pc' = "fill"
  /\ UNCHANGED <<x, y, contours>>
  /\ UNCHANGED contourFrame

\* one iteration of floodFill's while loop
FillStep ==
  /\ pc = "fill" /\ queue # <<>>
  /\ LET st == FillIteration(binaryData, width, height,
                 [queue |-> queue, blob |-> blob, visited |-> visited])
     IN /\ queue' = st.queue
        /\ blob' = st.blob
        /\ visited' = st.visited
  /\ UNCHANGED <<pc, x, y, contours>>
  /\ UNCHANGED contourFrame

\* floodFill returns; contours.push(contour); the scan goes on
FillReturn ==
  /\ pc = "fill" /\ queue = <<>>
  /\ contours' = Append(contours, blob)
  /\ ScanAdvance
  /\ pc' = "scan"
  /\ UNCHANGED <<visited, queue, blob>>
  /\ UNCHANGED contourFrame

\* the scan is over: findContours returns contours
ScanReturn ==
  /\ pc = "scan" /\ y >= height
  /\ pc' = "done"
  /\ UNCHANGED <<visited, x, y, queue, blob, contours>>
  /\ UNCHANGED contourFrame

ContourNext ==
  \/ ScanEmptyRow
  \/ ScanSkip
  \/ ScanFill
  \/ FillStep
  \/ FillReturn
  \/ ScanReturn

ContourSpec == ContourInit /\ [][ContourNext]_vars

(***************************************************************************)
(* The maximal 8-connected regions of a mask, defined without the flood    *)
(* fill: the closure of one pixel under 8-adjacency within the foreground. *)
(***************************************************************************)
Foreground(bd, w, h) ==
  {p \in {Point(px, py) : px \in 0..(w - 1), py \in 0..(h - 1)} :
     IsForeground(bd, p.x, p.y)}

Adjacent8(p, q) ==
  /\ p # q
  /\ Abs(p.x - q.x) <= 1
  /\ Abs(p.y - q.y) <= 1

RECURSIVE Closure8(_, _)
Closure8(S, F) ==
  LET T == S \cup {q \in F : \E p \in S : Adjacent8(p, q)}
  IN IF T = S THEN S ELSE Closure8(T, F)

Regions(F) == {Closure8({p}, F) : p \in F}

\* the number of places (blob i, position k) at which pixel p occurs
Occurrences(bs, p) ==
  Cardinality({ik \in UNION {{<<i, k>> : k \in 1..Len(bs[i])} : i \in 1..Len(bs)} :
                 bs[ik[1]][ik[2]] = p})

\* C1: when findContours returns, there is exactly one blob per maximal
\* 8-connected region of foreground pixels, every foreground pixel occurs in
\* exactly one blob and exactly once, and no background pixel is in a blob.
C1_Partition ==
  pc = "done" =>
    LET F == Foreground(binaryData, width, height)
        R == Regions(F)
    IN /\ Len(contours) = Cardinality(R)
       /\ \A i \in 1..Len(contours) : Range(contours[i]) \in R
       /\ \A p \in F : Occurrences(contours, p) = 1
       /\ \A i \in 1..Len(contours) : Range(contours[i]) \subseteq F

\* two regions were found, one of them joined only through a diagonal step
C1_Witness ==
  /\ pc = "done"
  /\ Len(contours) = 2
  /\ \E i \in 1..2 : \E p, q \in Range(contours[i]) :
        /\ Abs(p.x - q.x) = 1 /\ Abs(p.y - q.y) = 1
        /\ ~IsForeground(binaryData, p.x, q.y)
        /\ ~IsForeground(binaryData, q.x, p.y)
        /\ Len(contours[i]) = 2

(***************************************************************************)
(* TraceSpec: traceContour, one iteration of its do-while loop at a time.  *)
(* Its argument is a blob that findContours returns: for every mask of at  *)
(* most MaxMaskWidth x MaxMaskHeight pixels, and for the masks that hold a *)
(* filled BlockWidth x BlockHeight block below a FringeRows x FringeCols   *)
(* corner of free pixels (blobs of the size detectShapes traces).          *)
(***************************************************************************)
BlockWidth == 10
BlockHeight == 10
FringeRows == 2
FringeCols == 2

\* the mask with the pixels of `fringe` above a filled block
BlockMask(fringe) ==
  [py \in 0..(FringeRows + BlockHeight - 1) |->
     [px \in 0..(BlockWidth - 1) |->
        IF py >= FringeRows \/ Point(px, py) \in fringe THEN 1 ELSE 0]]

FringePixels == {Point(px, py) : px \in 0..(FringeCols - 1), py \in 0..(FringeRows - 1)}

TraceInit ==
  /\ \/ /\ width \in 1..MaxMaskWidth
        /\ height \in 1..MaxMaskHeight
        /\ binaryData \in Masks(width, height)
     \/ /\ width = BlockWidth
        /\ height = FringeRows + BlockHeight
        /\ binaryData \in {BlockMask(f) : f \in SUBSET FringePixels}
  /\ contours = FindContours(binaryData, width, height)
  /\ blob \in Range(contours)
  /\ pc = "trace"
  /\ perimeter = <<>>
  /\ currentPoint = StartPoint(blob)
  /\ dir = 0
  /\ visited = Unused /\ x = Unused /\ y = Unused /\ queue = Unused
  /\ imageData = Unused /\ grayData = Unused /\ optimalThreshold = Unused
  /\ divByZero = FALSE /\ shapes = Unused /\ blobIndex = Unused
  /\ points = Unused /\ epsilon = Unused /\ simplified = Unused
  /\ area = Unused /\ perimeterLength = Unused /\ vertices = Unused
  /\ outcome = Unused

\* what no step of traceContour changes
traceFrame ==
  <<maskVars, detectVars, rdpVars, classifyVars, visited, x, y, queue, blob,
    contours>>

TraceState == [perimeter |-> perimeter, currentPoint |-> currentPoint, dir |-> dir]

\* the loop body applied to the variables' values (a set of one state)
TraceStepped == {TraceIteration(Range(blob), StartPoint(blob), TraceState)}

\* a neighbour is found and it is not the start pixel: the loop goes on.  The
\* model follows the loop until the same step is emitted for the second time.
TraceMove ==
  /\ pc = "trace"
  /\ ~StepTwice(perimeter, currentPoint)
  /\ \E nx \in TraceStepped :
       /\ nx.running
       /\ perimeter' = nx.perimeter
       /\ currentPoint' = nx.currentPoint
       /\ dir' = nx.dir
  /\ pc' = "trace"
  /\ UNCHANGED traceFrame

\* a neighbour is found and it is the start pixel: the loop ends
TraceClose ==
  /\ pc = "trace"
  /\ \E nx \in TraceStepped :
       /\ ~nx.running
       /\ nx.currentPoint # currentPoint
       /\ perimeter' = nx.perimeter
       /\ currentPoint' = nx.currentPoint
       /\ dir' = nx.dir
  /\ pc' = "done"
  /\ UNCHANGED traceFrame

\* no neighbour is found: break
TraceBreak ==
  /\ pc = "trace"
  /\ \E nx \in TraceStepped :
       /\ ~nx.running
       /\ nx.currentPoint = currentPoint
       /\ perimeter' = nx.perimeter
  /\ UNCHANGED <<currentPoint, dir>>
  /\ pc' = "done"
  /\ UNCHANGED traceFrame

TraceNext ==
  \/ TraceMove
  \/ TraceClose
  \/ TraceBreak

TraceSpec == TraceInit /\ [][TraceNext]_vars

\* C2 (as claimed): for every blob that detectShapes traces, the loop of
\* traceContour ends after finitely many steps.  The loop is deterministic in
\* (currentPoint, dir), so it ends only if it never emits the same step twice.
C2_TraceTerminates ==
  (pc = "trace" /\ Len(blob) >= MinBlobPixels) => ~StepTwice(perimeter, currentPoint)

\* the topmost and, in that row, leftmost pixel of a set of pixels
IsTopLeft(p, S) ==
  /\ p \in S
  /\ \A q \in S : p.y < q.y \/ (p.y = q.y /\ p.x <= q.x)

\* C10: at every step of traceContour the emitted sequence starts at the
\* topmost-leftmost pixel of the blob, holds only pixels of the blob, every
\* two consecutive points are 8-adjacent, and the start pixel occurs once.
C10_TraceInvariant ==
  (pc \in {"trace", "done"} /\ perimeter # <<>>) =>
    /\ IsTopLeft(perimeter[1], Range(blob))
    /\ \A i \in 1..Len(perimeter) : perimeter[i] \in Range(blob)
    /\ \A i \in 1..(Len(perimeter) - 1) : Adjacent8(perimeter[i], perimeter[i + 1])
    /\ Cardinality({i \in 1..Len(perimeter) : perimeter[i] = perimeter[1]}) = 1

\* a trace of a large blob has closed: it came back to the start pixel
C10_Witness ==
  /\ pc = "done"
  /\ Len(blob) >= MinBlobPixels
  /\ Len(perimeter) >= 2 * (BlockWidth + BlockHeight) - 4
  /\ Adjacent8(perimeter[Len(perimeter)], perimeter[1])

(***************************************************************************)
(* RdpSpec: rdp applied to a point sequence, and again to its own result.  *)
(* The sequences are those of at most MaxPoints points of RdpGrid, the     *)
(* tolerances those of RdpEpsilons (in units of 1 / EpsilonUnit).          *)
(***************************************************************************)
MaxPoints == 4

RdpGrid == {Point(px, py) : px \in {0, 1, 2}, py \in {0, 1}}

RdpEpsilons == {0, 500, 1000}

RdpInit ==
  /\ points \in UNION {[1..n -> RdpGrid] : n \in 0..MaxPoints}
  /\ epsilon \in RdpEpsilons
  /\ simplified = <<>>
  /\ pc = "rdp"
  /\ binaryData = Unused /\ width = Unused /\ height = Unused
  /\ visited = Unused /\ x = Unused /\ y = Unused /\ queue = Unused
  /\ blob = Unused /\ contours = Unused
  /\ perimeter = Unused /\ currentPoint = Unused /\ dir = Unused
  /\ imageData = Unused /\ grayData = Unused /\ optimalThreshold = Unused
  /\ divByZero = FALSE /\ shapes = Unused /\ blobIndex = Unused
  /\ area = Unused /\ perimeterLength = Unused /\ vertices = Unused
  /\ outcome = Unused

rdpFrame ==
  <<maskVars, detectVars, traceVars, classifyVars, visited, x, y, queue, blob,
    contours, points, epsilon>>

\* rdp(points, epsilon)
RdpFirst ==
  /\ pc = "rdp"
  /\ simplified' = <<Rdp(points, epsilon)>>
  /\ pc' = "once"
  /\ UNCHANGED rdpFrame

\* rdp on the result, with the same epsilon
RdpAgain ==
  /\ pc = "once"
  /\ simplified' = Append(simplified, Rdp(simplified[1], epsilon))
  /\ pc' = "twice"
  /\ UNCHANGED rdpFrame

RdpNext ==
  \/ RdpFirst
  \/ RdpAgain

RdpSpec == RdpInit /\ [][RdpNext]_vars

\* whether a[i..] can be found, in order, in b[j..]
RECURSIVE IsSubsequenceFrom(_, _, _, _)
IsSubsequenceFrom(a, i, b, j) ==
  IF i > Len(a) THEN TRUE
  ELSE IF j > Len(b) THEN FALSE
  ELSE IF a[i] = b[j] THEN IsSubsequenceFrom(a, i + 1, b, j + 1)
  ELSE IsSubsequenceFrom(a, i, b, j + 1)

\* C7: rdp(rdp(P, e), e) = rdp(P, e), and rdp(P, e) is a subsequence of P, in
\* P's order, that begins with P's first point and ends with P's last.
C7_RdpIdempotent ==
  /\ pc = "twice" => simplified[2] = simplified[1]
  /\ pc \in {"once", "twice"} =>
       /\ IsSubsequenceFrom(simplified[1], 1, points, 1)
       /\ points # <<>> =>
            /\ simplified[1] # <<>>
            /\ simplified[1][1] = points[1]
            /\ simplified[1][Len(simplified[1])] = points[Len(points)]

\* rdp kept a point between the ends, dropped another, and was applied twice
C7_Witness ==
  /\ pc = "twice"
  /\ Len(points) = MaxPoints
  /\ Len(simplified[1]) > 2
  /\ Len(simplified[1]) < Len(points)
  /\ epsilon > 0

\* C11 (as claimed): when the two ends of the sequence that rdp scans
\* coincide, the distance that the loop of rdp gets from pointLineDistance
\* for every point between them is the defined value zero (a quotient 0 / den
\* with den > 0), not the result of a division by zero.
C11_CoincidentEndsGuarded ==
  (/\ pc \in {"once", "twice"}
   /\ Len(points) >= 3
   /\ points[1] = points[Len(points)]) =>
    \A k \in 1..(Len(points) - 2) :
      /\ ~DistanceIsNaN(ScanDistances(points)[k])
      /\ ScanDistances(points)[k].den2 > 0
      /\ ScanDistances(points)[k].num = 0

(***************************************************************************)
(* ClassifySpec: the classifier of detectShapes on a blob of `area`        *)
(* pixels whose traced perimeter has `perimeterLength` points and whose    *)
(* simplified polygon is `vertices`.                                       *)
(***************************************************************************)
AreaSpan == 3
MaxPerimeterLength == 82
MaxQuadSide == 6
MaxVertices == 11

\* the corners of a w x h rectangle, and zigzags of 1..MaxVertices points
VertexSamples ==
  {<<Point(0, 0), Point(w, 0), Point(w, h), Point(0, h)>> :
     w \in 0..MaxQuadSide, h \in 0..MaxQuadSide}
  \cup {[i \in 1..n |-> Point(i, (i * i) % 3)] : n \in 1..MaxVertices}

ClassifyInit ==
  /\ area \in (MinBlobPixels - 2)..(MinBlobPixels + AreaSpan)
  /\ perimeterLength \in 1..MaxPerimeterLength
  /\ vertices \in VertexSamples
  /\ outcome = NoLabel
  /\ pc = "classify"
  /\ binaryData = Unused /\ width = Unused /\ height = Unused
  /\ visited = Unused /\ x = Unused /\ y = Unused /\ queue = Unused
  /\ blob = Unused /\ contours = Unused
  /\ perimeter = Unused /\ currentPoint = Unused /\ dir = Unused
  /\ imageData = Unused /\ grayData = Unused /\ optimalThreshold = Unused
  /\ divByZero = FALSE /\ shapes = Unused /\ blobIndex = Unused
  /\ points = Unused /\ epsilon = Unused /\ simplified = Unused

classifyFrame ==
  <<maskVars, detectVars, traceVars, rdpVars, visited, x, y, queue, blob,
    contours, area, perimeterLength, vertices>>

\* the blob is dropped: no shape is pushed
ClassifyDrops ==
  /\ pc = "classify"
  /\ Classify(area, perimeterLength, vertices) = NoLabel
  /\ outcome' = NoLabel
  /\ pc' = "dropped"
  /\ UNCHANGED classifyFrame

\* shapes.push({type, confidence, ...})
ClassifyPushes ==
  /\ pc = "classify"
  /\ Classify(area, perimeterLength, vertices) # NoLabel
  /\ outcome' = Classify(area, perimeterLength, vertices)
  /\ pc' = "pushed"
  /\ UNCHANGED classifyFrame

ClassifyNext ==
  \/ ClassifyDrops
  \/ ClassifyPushes

ClassifySpec == ClassifyInit /\ [][ClassifyNext]_vars

\* the decision sequence of the claim, on the inputs a, len, vs
ClaimedLabel(a, len, vs) ==
  LET above(n) == 4 * PiNum * a * 100 > n * len * len * PiDen
      below(n) == 4 * PiNum * a * 100 < n * len * len * PiDen
      v == Len(vs)
      side(i) == Dist2(vs[i], vs[(i % 4) + 1])
      ratioBelow == \A i, j \in 1..4 : 100 * side(i) < 144 * side(j)
  IN CASE a < 100 -> NoLabel
       [] a >= 100 /\ below(20) -> NoLabel
       [] a >= 100 /\ ~below(20) /\ above(95) ->
            Label("circle", Min2((4 * PiNum * a * ConfidenceUnit) \div (len * len * PiDen),
                                 ConfidenceUnit))
       [] OTHER ->
            CASE v = 10 -> Label("star", 850)
              [] v = 5 -> Label("pentagon", 850)
              [] v = 3 /\ above(75) -> Label("square", 700)
              [] v = 3 /\ ~above(75) -> Label("triangle", 850)
              [] v = 4 /\ ratioBelow -> Label("square", 900)
              [] v = 4 /\ ~ratioBelow -> Label("rectangle", 900)
              [] OTHER ->
                   IF above(76) THEN Label("square", 650)
                   ELSE IF above(50) THEN Label("rectangle", 650)
                   ELSE NoLabel

\* C9: the classifier's outcome is the claimed function of area, compactness,
\* vertex count and side-ratio test, and a confidence lies in [0, 1].
C9_DecisionSequence ==
  pc \in {"dropped", "pushed"} =>
    /\ outcome = ClaimedLabel(area, perimeterLength, vertices)
    /\ outcome.confidence >= 0
    /\ outcome.confidence <= ConfidenceUnit
    /\ (pc = "pushed") = (outcome.type # "none")

\* a star was pushed
C9_Witness ==
  /\ pc = "pushed"
  /\ outcome = Label("star", 850)
  /\ Len(vertices) = 10
  /\ area >= MinBlobPixels

(***************************************************************************)
(* DetectSpec: detectShapes, one stage at a time, on the images of Images. *)
(* An image is [width, height, data], data being the RGBA bytes.           *)
(***************************************************************************)
MinSide == 10
MaxSide == 12
MaxUniformSide == 3
MaxExcess == 5

\* the (dark, light) levels of the scenes
LevelPairs == {<<0, 255>>, <<40, 200>>}

Levels == {0, 40, 200, 255}

\* a shade a little lighter than the dark level
ShadeOf(dark) == dark + 10

\* the bytes of the w x h image whose pixel (px, py) has r = g = b = level[py][px]
Draw(w, h, level) ==
  [width |-> w, height |-> h,
   data |-> [i \in 1..(4 * w * h) |->
               IF i % 4 = 0 THEN 255
               ELSE level[((i - 1) \div 4) \div w][((i - 1) \div 4) % w]]]

\* A filled bw x bh rectangle of level `dark` on a background of level
\* `light`, one column and FringeRows + 1 rows from the top left corner; the
\* pixels of `fringe` above its top left corner are dark too; with `noise` a
\* dark 2 x 2 patch lies apart in the top right corner; with `shade` the bottom
\* row of the image has the level ShadeOf(dark).
Scene(bw, bh, dark, light, fringe, shade, noise) ==
  LET w == bw + 5
      h == FringeRows + bh + 3
  IN Draw(w, h,
       [py \in 0..(h - 1) |->
          [px \in 0..(w - 1) |->
             IF /\ px >= 1 /\ px <= bw
                /\ py >= FringeRows + 1 /\ py <= FringeRows + bh
             THEN dark
             ELSE IF Point(px - 1, py - 1) \in fringe THEN dark
             ELSE IF noise /\ px >= bw + 3 /\ py <= 1 THEN dark
             ELSE IF shade /\ py = h - 1 THEN ShadeOf(dark)
             ELSE light]])

\* one rectangle, dark on light
RectangleScenes ==
  {Scene(bw, bh, lv[1], lv[2], {}, shade, noise) :
     bw \in MinSide..MaxSide, bh \in MinSide..MaxSide,
     lv \in LevelPairs, shade \in BOOLEAN, noise \in BOOLEAN}

\* a square with at most two more dark pixels above its top left corner
FringeScenes ==
  {Scene(MinSide, MinSide, 0, 255, f, TRUE, FALSE) :
     f \in {g \in SUBSET FringePixels : Cardinality(g) <= 2}}

\* a rectangle of one pixel fewer than the noise filter's bound
NearNoiseScenes ==
  {Scene(d[1], d[2], 0, 255, {}, TRUE, FALSE) :
     d \in {e \in (1..MaxSide) \X (1..MaxSide) : e[1] * e[2] = MinBlobPixels - 1}}

\* small images of two levels, the dark one on the diagonal
TwoLevelImages ==
  {Draw(w, h, [py \in 0..(h - 1) |-> [px \in 0..(w - 1) |->
                 IF px = py THEN lv[1] ELSE lv[2]]]) :
     w \in 2..MaxUniformSide, h \in 2..MaxUniformSide, lv \in LevelPairs}

\* every pixel has the same level
UniformImages ==
  {Draw(w, h, [py \in 0..(h - 1) |-> [px \in 0..(w - 1) |-> level]]) :
     w \in 0..MaxUniformSide, h \in 0..MaxUniformSide,
     level \in Levels}
  \cup {Scene(MinSide, MinSide, level, level, {}, FALSE, FALSE) : level \in Levels}

WellFormedImages ==
  RectangleScenes \cup FringeScenes \cup NearNoiseScenes \cup TwoLevelImages
    \cup UniformImages

\* images whose buffer is shorter or longer than width * height * 4
MalformedImages ==
  LET bases == {Scene(MinSide, MinSide, 0, 255, {}, TRUE, FALSE),
                Draw(2, 2, [py \in 0..1 |-> [px \in 0..1 |->
                             IF px = py THEN 0 ELSE 255]])}
  IN {[img EXCEPT !.data = SubSeq(img.data, 1, Len(img.data) - k)] :
        img \in bases, k \in 1..MaxExcess}
     \cup {[img EXCEPT !.data = img.data \o [i \in 1..k |-> 255]] :
             img \in bases, k \in 1..MaxExcess}

Images == WellFormedImages \cup MalformedImages

DetectInit ==
  /\ imageData \in Images
  /\ pc = "start"
  /\ grayData = <<>>
  /\ optimalThreshold = 0
  /\ divByZero = FALSE
  /\ binaryData = <<>>
  /\ width = imageData.width
  /\ height = imageData.height
  /\ contours = <<>>
  /\ shapes = <<>>
  /\ blobIndex = 1
  /\ blob = <<>>
  /\ perimeter = <<>>
  /\ area = 0
  /\ perimeterLength = 0
  /\ vertices = <<>>
  /\ outcome = NoLabel
  /\ visited = Unused /\ x = Unused /\ y = Unused /\ queue = Unused
  /\ currentPoint = Unused /\ dir = Unused
  /\ points = Unused /\ epsilon = Unused /\ simplified = Unused

detectFrame == <<imageData, width, height, visited, x, y, queue, currentPoint, dir, rdpVars>>

blobVars == <<blob, perimeter, area, perimeterLength, vertices, outcome>>

\* const grayData = this.toGrayscale(imageData): the first statement that
\* looks at the buffer; nothing compares its length with width and height
Grayscale ==
  /\ pc = "start"
  /\ grayData' = ToGrayscale(imageData)
  /\ pc' = "gray"
  /\ UNCHANGED <<optimalThreshold, divByZero, binaryData, contours, shapes, blobIndex>>
  /\ UNCHANGED blobVars
  /\ UNCHANGED detectFrame

\* const binaryData = this.otsuBinarize(grayData, width, height)
Binarize ==
  /\ pc = "gray"
  /\ \E sweep \in {OtsuSweep(grayData, width, height)} :
       /\ optimalThreshold' = sweep.optimalThreshold
       /\ divByZero' = sweep.divByZero
       /\ binaryData' = OtsuMask(grayData, width, height, sweep.optimalThreshold)
  /\ pc' = "binary"
  /\ UNCHANGED <<grayData, contours, shapes, blobIndex>>
  /\ UNCHANGED blobVars
  /\ UNCHANGED detectFrame

\* const contours = this.findContours(binaryData, width, height)
Contours ==
  /\ pc = "binary"
  /\ contours' = FindContours(binaryData, width, height)
  /\ pc' = "blobs"
  /\ UNCHANGED <<grayData, optimalThreshold, divByZero, binaryData, shapes, blobIndex>>
  /\ UNCHANGED blobVars
  /\ UNCHANGED detectFrame

\* the loop over the blobs: a blob of fewer than 100 pixels is skipped
SkipNoise ==
  /\ pc = "blobs"
  /\ blobIndex <= Len(contours)
  /\ IsNoise(Len(contours[blobIndex]))
  /\ blob' = contours[blobIndex]
  /\ area' = Len(contours[blobIndex])
  /\ outcome' = NoLabel
  /\ blobIndex' = blobIndex + 1
  /\ UNCHANGED <<perimeter, perimeterLength, vertices>>
  /\ UNCHANGED <<pc, grayData, optimalThreshold, divByZero, binaryData, contours, shapes>>
  /\ UNCHANGED detectFrame

\* the loop of traceContour never ends: perimeter grows until the memory is
\* used up, and detectShapes returns nothing
TraceHangs ==
  /\ pc = "blobs"
  /\ blobIndex <= Len(contours)
  /\ ~IsNoise(Len(contours[blobIndex]))
  /\ \E traced \in {TraceContour(contours[blobIndex])} :
       /\ traced.diverges
       /\ perimeter' = traced.perimeter
  /\ blob' = contours[blobIndex]
  /\ area' = Len(contours[blobIndex])
  /\ pc' = "hung"
  /\ UNCHANGED <<perimeterLength, vertices, outcome>>
  /\ UNCHANGED <<grayData, optimalThreshold, divByZero, binaryData, contours, shapes, blobIndex>>
  /\ UNCHANGED detectFrame

\* the shape pushed for a blob b that got the label lab
ShapeOf(b, lab) ==
  [type |-> lab.type, confidence |-> lab.confidence,
   boundingBox |-> CalculateBoundingBox(b), center |-> CalculateCentroid(b),
   area |-> Len(b)]

\* the loop body for a blob of at least 100 pixels whose trace ends
ClassifyBlob ==
  /\ pc = "blobs"
  /\ blobIndex <= Len(contours)
  /\ ~IsNoise(Len(contours[blobIndex]))
  /\ \E traced \in {TraceContour(contours[blobIndex])} :
       /\ ~traced.diverges
       /\ \E vs \in {IF ReachesPolygons(Len(contours[blobIndex]), Len(traced.perimeter))
                      THEN Rdp(traced.perimeter, EpsilonOf(Len(traced.perimeter)))
                      ELSE <<>>} :
            LET b == contours[blobIndex]
                lab == Classify(Len(b), Len(traced.perimeter), vs)
            IN /\ blob' = b
               /\ area' = Len(b)
               /\ perimeter' = traced.perimeter
               /\ perimeterLength' = Len(traced.perimeter)
               /\ vertices' = vs
               /\ outcome' = lab
               /\ shapes' = IF lab = NoLabel THEN shapes
                            ELSE Append(shapes, ShapeOf(b, lab))
  /\ blobIndex' = blobIndex + 1
  /\ UNCHANGED <<pc, grayData, optimalThreshold, divByZero, binaryData, contours>>
  /\ UNCHANGED detectFrame

\* return {shapes, processingTime, imageWidth, imageHeight}
Return ==
  /\ pc = "blobs"
  /\ blobIndex > Len(contours)
  /\ pc' = "done"
  /\ UNCHANGED <<grayData, optimalThreshold, divByZero, binaryData, contours, shapes, blobIndex>>
  /\ UNCHANGED blobVars
  /\ UNCHANGED detectFrame

DetectNext ==
  \/ Grayscale
  \/ Binarize
  \/ Contours
  \/ SkipNoise
  \/ TraceHangs
  \/ ClassifyBlob
  \/ Return

DetectSpec == DetectInit /\ [][DetectNext]_vars

\* the stages after otsuBinarize
Binarized == pc \in {"binary", "blobs", "done", "hung"}

\* the levels of g up to c and those above it are two clusters, each narrow
\* next to the gap between them
WellSeparated(g, c) ==
  LET dark == {v \in Range(g) : v <= c}
      bright == {v \in Range(g) : v > c}
  IN /\ dark # {}
     /\ bright # {}
     /\ SetMin(bright) - SetMax(dark) > 4 * (SetMax(dark) - SetMin(dark))
     /\ SetMin(bright) - SetMax(dark) > 4 * (SetMax(bright) - SetMin(bright))

\* C3 (as claimed): when the intensities form two well-separated clusters,
\* the threshold of otsuBinarize is strictly above every intensity of the
\* darker cluster and strictly below every intensity of the brighter one,
\* and the mask marks exactly the pixels of the darker cluster.
C3_ThresholdBetweenClusters ==
  Binarized =>
    \A c \in Range(grayData) :
      WellSeparated(grayData, c) =>
        /\ optimalThreshold > c
        /\ \A v \in Range(grayData) : v > c => optimalThreshold < v
        /\ \A py \in 0..(height - 1) : \A px \in 0..(width - 1) :
             binaryData[py][px] = 1 <=> grayData[py * width + px + 1] <= c

\* an image that holds nothing but one filled square, dark on light
SquareScenes ==
  {Scene(side, side, lv[1], lv[2], {}, FALSE, FALSE) :
     side \in MinSide..MaxSide, lv \in LevelPairs}

\* the side of the square of a square scene
SideOf(img) == img.width - 5

\* C4 (as claimed): for an image of a single filled axis-aligned square of
\* side S, dark on a uniform light background, detectShapes returns exactly
\* one shape, a square of confidence at least 0.7 whose area is within 5% of
\* S * S.
C4_SquareDetected ==
  (pc = "done" /\ imageData \in SquareScenes) =>
    /\ Len(shapes) = 1
    /\ shapes[1].type = "square"
    /\ shapes[1].confidence * 10 >= 7 * ConfidenceUnit
    /\ 100 * Abs(shapes[1].area - SideOf(imageData) * SideOf(imageData))
         <= 5 * SideOf(imageData) * SideOf(imageData)

\* C5: on an image whose pixels all have the same intensity, otsuBinarize
\* divides by zero nowhere, chooses the threshold 0 and produces a mask of
\* background only, and detectShapes returns an empty list of shapes (it
\* neither hangs nor pushes a shape).
C5_UniformImage ==
  imageData \in UniformImages =>
    /\ ~divByZero
    /\ pc # "hung"
    /\ shapes = <<>>
    /\ Binarized =>
         /\ optimalThreshold = 0
         /\ \A py \in 0..(height - 1) : \A px \in 0..(width - 1) :
              binaryData[py][px] = 0

\* detectShapes has returned for a uniform image of more than one pixel
C5_Witness ==
  /\ pc = "done"
  /\ imageData \in UniformImages
  /\ Cardinality(Range(grayData)) = 1
  /\ Len(grayData) >= MinBlobPixels
  /\ shapes = <<>>

\* C6: every shape of the list that detectShapes builds and returns comes
\* from a blob of at least 100 pixels, and its area is that blob's size.
C6_NoSmallShapes ==
  \A i \in 1..Len(shapes) :
    /\ shapes[i].area >= MinBlobPixels
    /\ \E k \in 1..Len(contours) :
         /\ Len(contours[k]) >= MinBlobPixels
         /\ shapes[i].area = Len(contours[k])
         /\ shapes[i].boundingBox = CalculateBoundingBox(contours[k])

\* detectShapes has returned for an image with a blob of 99 pixels, and the
\* blob is in no shape
C6_Witness ==
  /\ pc = "done"
  /\ \E k \in 1..Len(contours) : Len(contours[k]) = MinBlobPixels - 1
  /\ blob # <<>>
  /\ \A i \in 1..Len(shapes) : shapes[i].area # MinBlobPixels - 1

\* C8 (as claimed): when the length of the buffer differs from
\* width * height * 4, no stage of the pipeline runs and no result is
\* produced.
C8_FailsFast ==
  Len(imageData.data) # 4 * width * height => pc = "start"

====
